---------------------------- MODULE Spec2Model ----------------------------
(***************************************************************************)
(* A model of the JSON library in src/json.h and src/json.cpp: the tagged  *)
(* Node value, its Is / As accessors, the recursive-descent parser behind  *)
(* Load and the pretty printer behind the library's print entry point.     *)
(*                                                                         *)
(* Characters are their codes (the stream is ASCII); a string, a lexeme    *)
(* and a stream are sequences of codes.  The input stream is the pair      *)
(* (stream, pos): pos characters have been consumed.  peek() and get() on  *)
(* an exhausted stream return EOF.                                         *)
(*                                                                         *)
(* The library routines the code calls (isspace, isdigit, isalpha,         *)
(* operator>> on an istringstream, operator<< on an ostream) are modelled  *)
(* by what they do in the "C" locale with the stream defaults.  A double   *)
(* is an exact decimal; negative zero is not told apart from zero, as in   *)
(* the code's own comparison of doubles.                                   *)
(***************************************************************************)
EXTENDS Integers, Sequences, FiniteSets, TLC

VARIABLES
    phase,      \* where the caller is: start, built, printed, fed, loaded, reprinted, accessed
    given,      \* what the caller supplied: a description of the built value or input text
    root,       \* the Document's root Node, NoDoc when there is no Document
    stream,     \* the characters of the input stream
    pos,        \* number of characters consumed from the input stream
    status,     \* how the last Load ended: none, ok, ParsingError, bad_alloc
    message,    \* what() of the exception the last Load raised, "" when none
    output,     \* the characters written to the output stream
    acc         \* the last accessor call and its result

vars == <<phase, given, root, stream, pos, status, message, output, acc>>

----------------------------------------------------------------------------
(* Characters                                                              *)

EOF == -1
TAB == 9
NL == 10
VT == 11
FF == 12
CR == 13
SPACE == 32
QUOTE == 34
PLUS == 43
COMMA == 44
MINUS == 45
DOT == 46
ZERO == 48
COLON == 58
LBRACKET == 91
BACKSLASH == 92
RBRACKET == 93
LBRACE == 123
RBRACE == 125
Ch_e == 101
Ch_n == 110
Ch_r == 114
Ch_t == 116

TrueToken == <<116, 114, 117, 101>>
FalseToken == <<102, 97, 108, 115, 101>>
NullToken == <<110, 117, 108, 108>>

\* <cctype> in the "C" locale, which the program never changes.
isspace(c) == c \in {SPACE, TAB, NL, VT, FF, CR}
isdigit(c) == c \in 48..57
isalpha(c) == c \in (65..90) \cup (97..122)
tolower(c) == IF c \in 65..90 THEN c + 32 ELSE c

\* int is 32 bits wide.
INT_MAX == 2147483647
INT_MIN == -INT_MAX - 1

\* The default precision of an ostream, and the digits of the 1e10 limit of the
\* ".0" rule (abs(value) < 1e10: at most ten digits before the decimal point).
Precision == 6
IntegralDigits == 10
IndentStep == 2

\* The longest string the model's memory holds: line += c past it raises bad_alloc.
MaxLine == 14

----------------------------------------------------------------------------
(* Node: std::variant<nullptr_t, Array, Dict, bool, int, double, string>   *)
(* A double is the decimal m * 10^e, normalised: m = 0 and e = 0, or m is  *)
(* not a multiple of ten.  A Dict is a function from its keys.             *)

NoDoc == [type |-> "None"]
NullNode == [type |-> "Null"]
BoolNode(b) == [type |-> "Bool", b |-> b]
IntNode(i) == [type |-> "Int", i |-> i]
DoubleNode(m, e) == [type |-> "Double", m |-> m, e |-> e]
StringNode(s) == [type |-> "String", s |-> s]
ArrayNode(a) == [type |-> "Array", a |-> a]
DictNode(d) == [type |-> "Dict", d |-> d]

IsNull(n) == n.type = "Null"
IsArray(n) == n.type = "Array"
IsMap(n) == n.type = "Dict"
IsBool(n) == n.type = "Bool"
IsInt(n) == n.type = "Int"
IsPureDouble(n) == n.type = "Double"
IsDouble(n) == n.type = "Double" \/ IsInt(n)
IsString(n) == n.type = "String"

LogicError(msg) == [threw |-> "logic_error", what |-> msg]
Returned(v) == [threw |-> "nothing", value |-> v]

AsArray(n) == IF ~IsArray(n) THEN LogicError("Not an array") ELSE Returned(n.a)
AsMap(n) == IF ~IsMap(n) THEN LogicError("Not a map") ELSE Returned(n.d)
AsBool(n) == IF ~IsBool(n) THEN LogicError("Not a bool") ELSE Returned(n.b)
AsInt(n) == IF ~IsInt(n) THEN LogicError("Not an int") ELSE Returned(n.i)
AsString(n) == IF ~IsString(n) THEN LogicError("Not a string") ELSE Returned(n.s)

\* The widening int -> double: the double with the integer's value.
RECURSIVE Normalise(_, _)
Normalise(m, e) ==
    IF m = 0 THEN [m |-> 0, e |-> 0]
    ELSE IF m % 10 = 0 THEN Normalise(m \div 10, e + 1)
    ELSE [m |-> m, e |-> e]

Widen(i) == Normalise(i, 0)

\* AsDouble without the widening of an int.
AsDouble_NoWidening(n) ==
    IF ~IsPureDouble(n) THEN LogicError("Not a double")
    ELSE Returned([m |-> n.m, e |-> n.e])

AsDouble(n) ==
    IF IsInt(n) THEN Returned(Widen(n.i))
    ELSE IF ~IsDouble(n) THEN LogicError("Not a double")
    ELSE Returned([m |-> n.m, e |-> n.e])

----------------------------------------------------------------------------
(* The input stream                                                        *)

Peek(s, p) == IF p < Len(s) THEN s[p + 1] ELSE EOF
Advance(s, p) == IF p < Len(s) THEN p + 1 ELSE p

RECURSIVE SkipWhitespace(_, _)
SkipWhitespace(s, p) ==
    IF isspace(Peek(s, p)) THEN SkipWhitespace(s, Advance(s, p)) ELSE p

\* while (isdigit(input.peek())) read_char();
RECURSIVE SkipDigits(_, _)
SkipDigits(s, p) ==
    IF isdigit(Peek(s, p)) THEN SkipDigits(s, Advance(s, p)) ELSE p

----------------------------------------------------------------------------
(* num_iss >> num: the conversion of the lexeme LoadNumber collected.  On  *)
(* failure the extraction stores 0, or the nearest limit when the value is *)
(* out of range, and sets failbit, which LoadNumber never reads.           *)

RECURSIVE DigitsFrom(_, _)
DigitsFrom(lex, i) ==
    IF i <= Len(lex) /\ isdigit(lex[i]) THEN <<lex[i] - ZERO>> \o DigitsFrom(lex, i + 1)
    ELSE <<>>

\* The value of the digits ds after acc, negated when neg, saturating at the limit.
RECURSIVE Accumulate(_, _, _, _)
Accumulate(ds, i, sum, neg) ==
    IF i > Len(ds) THEN [val |-> sum, fail |-> FALSE]
    ELSE IF neg
         THEN IF sum < (INT_MIN + ds[i] + 9) \div 10
              THEN [val |-> INT_MIN, fail |-> TRUE]
              ELSE Accumulate(ds, i + 1, sum * 10 - ds[i], neg)
         ELSE IF sum > (INT_MAX - ds[i]) \div 10
              THEN [val |-> INT_MAX, fail |-> TRUE]
              ELSE Accumulate(ds, i + 1, sum * 10 + ds[i], neg)

ExtractInt(lex) ==
    LET neg == Len(lex) >= 1 /\ lex[1] = MINUS
        ds == DigitsFrom(lex, IF neg THEN 2 ELSE 1)
    IN  IF ds = <<>> THEN [val |-> 0, fail |-> TRUE]
        ELSE Accumulate(ds, 1, 0, neg)

RECURSIVE ValueOf(_, _, _)
ValueOf(ds, i, sum) == IF i > Len(ds) THEN sum ELSE ValueOf(ds, i + 1, sum * 10 + ds[i])

RECURSIVE StripZeros(_)
StripZeros(ds) ==
    IF Len(ds) > 1 /\ ds[Len(ds)] = 0 THEN StripZeros(SubSeq(ds, 1, Len(ds) - 1)) ELSE ds

\* The double nearest the decimal the lexeme writes; the model's doubles are
\* the decimals of at most nine significant digits, which a double tells apart.
ExtractDouble(lex) ==
    LET neg == Len(lex) >= 1 /\ lex[1] = MINUS
        i0 == IF neg THEN 2 ELSE 1
        ip == DigitsFrom(lex, i0)
        i1 == i0 + Len(ip)
        dot == i1 <= Len(lex) /\ lex[i1] = DOT
        fp == IF dot THEN DigitsFrom(lex, i1 + 1) ELSE <<>>
        i2 == IF dot THEN i1 + 1 + Len(fp) ELSE i1
        ex == i2 <= Len(lex) /\ tolower(lex[i2]) = Ch_e
        i3 == i2 + 1
        sgn == ex /\ i3 <= Len(lex) /\ lex[i3] \in {PLUS, MINUS}
        i4 == IF sgn THEN i3 + 1 ELSE i3
        ep == IF ex THEN DigitsFrom(lex, i4) ELSE <<>>
        sig == StripZeros(ip \o fp)
        mant == ValueOf(sig, 1, 0)
        expo == (IF sgn /\ lex[i3] = MINUS THEN -1 ELSE 1) * ValueOf(ep, 1, 0)
        norm == Normalise(IF neg THEN -mant ELSE mant,
                          expo - Len(fp) + (Len(ip \o fp) - Len(sig)))
    IN  IF ip \o fp = <<>> \/ (ex /\ ep = <<>>)
        THEN [m |-> 0, e |-> 0, fail |-> TRUE]
        ELSE [m |-> norm.m, e |-> norm.e, fail |-> FALSE]

----------------------------------------------------------------------------
(* The parser.  Every routine returns how it ended (st), the stream        *)
(* position it left (pos) and, when it returned, its value.                *)

Parsed(n, p) == [st |-> "ok", node |-> n, pos |-> p]
ParsingError(msg, p) == [st |-> "ParsingError", what |-> msg, pos |-> p]
BadAlloc(p) == [st |-> "bad_alloc", what |-> "std::bad_alloc", pos |-> p]

LoadNumber(s, p) ==
    LET p1 == IF Peek(s, p) = MINUS THEN Advance(s, p) ELSE p
        p2 == SkipDigits(s, p1)
        dot == Peek(s, p2) = DOT
        p3 == IF dot THEN SkipDigits(s, Advance(s, p2)) ELSE p2
        ex == tolower(Peek(s, p3)) = Ch_e
        q1 == Advance(s, p3)
        q2 == IF Peek(s, q1) = PLUS \/ Peek(s, q1) = MINUS THEN Advance(s, q1) ELSE q1
        p4 == IF ex THEN SkipDigits(s, q2) ELSE p3
        num_str == SubSeq(s, p + 1, p4)
        is_double == dot \/ ex
        d == ExtractDouble(num_str)
    IN  IF is_double
        THEN Parsed(DoubleNode(d.m, d.e), p4)
        ELSE Parsed(IntNode(ExtractInt(num_str).val), p4)

\* One character through the switch of LoadStringToken.
Unescape(c) ==
    CASE c = Ch_n -> NL
      [] c = Ch_r -> CR
      [] c = Ch_t -> TAB
      [] c = QUOTE -> QUOTE
      [] c = BACKSLASH -> BACKSLASH
      [] OTHER -> c

\* The switch with one more case, u.
IsEscape_WithU(c) == c \in {Ch_n, Ch_r, Ch_t, QUOTE, BACKSLASH, 117}

IsEscape(c) == c \in {Ch_n, Ch_r, Ch_t, QUOTE, BACKSLASH}

\* The while (true) loop of LoadStringToken, from the state (p, line, escape).
RECURSIVE StringLoop(_, _, _, _)
StringLoop(s, p, line, escape) ==
    LET c == Peek(s, p)
        q == Advance(s, p)
    IN  IF c = BACKSLASH /\ ~escape THEN StringLoop(s, q, line, TRUE)
        ELSE IF c = QUOTE /\ ~escape THEN [st |-> "ok", str |-> line, pos |-> q]
        ELSE IF escape /\ ~IsEscape(c) THEN ParsingError("Invalid escape sequence", q)
        ELSE IF Len(line) >= MaxLine THEN BadAlloc(q)
        ELSE StringLoop(s, q, Append(line, IF escape THEN Unescape(c) ELSE c), FALSE)

LoadStringToken(s, p) == StringLoop(s, p, <<>>, FALSE)

LoadString(s, p) ==
    IF Peek(s, p) # QUOTE
    THEN ParsingError("String should start with \"", Advance(s, p))
    ELSE LET r == LoadStringToken(s, Advance(s, p))
         IN  IF r.st = "ok" THEN Parsed(StringNode(r.str), r.pos) ELSE r

\* while (isalpha(input.peek())) token += input.get();
RECURSIVE SkipAlpha(_, _)
SkipAlpha(s, p) ==
    IF isalpha(Peek(s, p)) THEN SkipAlpha(s, Advance(s, p)) ELSE p

\* The word read with get() until a character that is no letter: one too many.
LoadBoolOrNull_ReadsAhead(s, p) ==
    LET q == SkipAlpha(s, p)
        token == SubSeq(s, p + 1, q)
    IN  IF token = TrueToken THEN Parsed(BoolNode(TRUE), Advance(s, q))
        ELSE IF token = FalseToken THEN Parsed(BoolNode(FALSE), Advance(s, q))
        ELSE IF token = NullToken THEN Parsed(NullNode, Advance(s, q))
        ELSE ParsingError("Unknown token: ", Advance(s, q))

LoadBoolOrNull(s, p) ==
    LET q == SkipAlpha(s, p)
        token == SubSeq(s, p + 1, q)
    IN  IF token = TrueToken THEN Parsed(BoolNode(TRUE), q)
        ELSE IF token = FalseToken THEN Parsed(BoolNode(FALSE), q)
        ELSE IF token = NullToken THEN Parsed(NullNode, q)
        ELSE ParsingError("Unknown token: ", q)

\* std::map::emplace: inserts only when the key is absent.
Emplace(result, key, node) ==
    IF key \in DOMAIN result THEN result
    ELSE [k \in DOMAIN result \cup {key} |-> IF k = key THEN node ELSE result[k]]

EmptyDict == [k \in {} |-> NullNode]

RECURSIVE LoadNode(_, _)
RECURSIVE ArrayLoop(_, _, _)
RECURSIVE DictLoop(_, _, _)

\* The while (true) loop of LoadArray.
ArrayLoop(s, p, result) ==
    LET r == LoadNode(s, SkipWhitespace(s, p))
    IN  IF r.st # "ok" THEN r
        ELSE LET p2 == SkipWhitespace(s, r.pos)
                 c == Peek(s, p2)
                 q == Advance(s, p2)
                 grown == Append(result, r.node)
             IN  IF c = RBRACKET THEN Parsed(ArrayNode(grown), q)
                 ELSE IF c # COMMA THEN ParsingError("Expected ',' or ']' in array", q)
                 ELSE ArrayLoop(s, q, grown)

LoadArray(s, p) ==
    IF Peek(s, p) # LBRACKET
    THEN ParsingError("Array should start with [", Advance(s, p))
    ELSE LET p1 == SkipWhitespace(s, Advance(s, p))
         IN  IF Peek(s, p1) = RBRACKET THEN Parsed(ArrayNode(<<>>), Advance(s, p1))
             ELSE ArrayLoop(s, p1, <<>>)

\* The while (true) loop of LoadDict.
DictLoop(s, p, result) ==
    LET p1 == SkipWhitespace(s, p)
    IN  IF Peek(s, p1) # QUOTE
        THEN ParsingError("Dict key should start with \"", Advance(s, p1))
        ELSE
        LET k == LoadStringToken(s, Advance(s, p1))
        IN  IF k.st # "ok" THEN k
            ELSE
            LET p2 == SkipWhitespace(s, k.pos)
            IN  IF Peek(s, p2) # COLON
                THEN ParsingError("Expected ':' after dict key", Advance(s, p2))
                ELSE
                LET r == LoadNode(s, SkipWhitespace(s, Advance(s, p2)))
                IN  IF r.st # "ok" THEN r
                    ELSE
                    LET grown == Emplace(result, k.str, r.node)
                        p3 == SkipWhitespace(s, r.pos)
                        c == Peek(s, p3)
                        q == Advance(s, p3)
                    IN  IF c = RBRACE THEN Parsed(DictNode(grown), q)
                        ELSE IF c # COMMA
                        THEN ParsingError("Expected ',' or '}' in dict", q)
                        ELSE DictLoop(s, q, grown)

LoadDict(s, p) ==
    IF Peek(s, p) # LBRACE
    THEN ParsingError("Dict should start with {", Advance(s, p))
    ELSE LET p1 == SkipWhitespace(s, Advance(s, p))
         IN  IF Peek(s, p1) = RBRACE THEN Parsed(DictNode(EmptyDict), Advance(s, p1))
             ELSE DictLoop(s, p1, EmptyDict)

LoadNode(s, p) ==
    LET p1 == SkipWhitespace(s, p)
        c == Peek(s, p1)
    IN  IF c = LBRACKET THEN LoadArray(s, p1)
        ELSE IF c = LBRACE THEN LoadDict(s, p1)
        ELSE IF c = QUOTE THEN LoadString(s, p1)
        ELSE IF isdigit(c) \/ c = MINUS THEN LoadNumber(s, p1)
        ELSE IF isalpha(c) THEN LoadBoolOrNull(s, p1)
        ELSE ParsingError("Unexpected character: ", p1)

Load(s) == LoadNode(s, 0)

----------------------------------------------------------------------------
(* The printer.  Every routine returns the characters it writes.           *)

Repeat(c, n) == [i \in 1..n |-> c]

RECURSIVE DigitsOf(_)
DigitsOf(n) == IF n < 10 THEN <<n>> ELSE Append(DigitsOf(n \div 10), n % 10)

DigitChars(ds) == [i \in 1..Len(ds) |-> ZERO + ds[i]]

\* output << value for an int: the last digit is split off before the sign is
\* dropped, so that INT_MIN needs no value above INT_MAX.
IntToText(i) ==
    IF i >= 0 THEN DigitChars(DigitsOf(i))
    ELSE LET last == (10 - (i % 10)) % 10
             rest == -((i + last) \div 10)
         IN  <<MINUS>> \o (IF rest = 0 THEN <<>> ELSE DigitChars(DigitsOf(rest)))
                       \o DigitChars(<<last>>)

\* ds rounded to its first k digits, ties to even: the digits and whether the
\* rounding carried into a new leading digit.
RoundDigits(ds, k) ==
    IF Len(ds) <= k THEN [digits |-> ds, carry |-> FALSE]
    ELSE LET head == SubSeq(ds, 1, k)
             tail == SubSeq(ds, k + 1, Len(ds))
             more == \E j \in 2..Len(tail) : tail[j] # 0
             up == tail[1] > 5 \/ (tail[1] = 5 /\ (more \/ head[k] % 2 = 1))
             all9 == \A j \in 1..k : head[j] = 9
         IN  IF ~up THEN [digits |-> head, carry |-> FALSE]
             ELSE IF all9 THEN [digits |-> <<1>>, carry |-> TRUE]
             ELSE [digits |-> DigitsOf(ValueOf(head, 1, 0) + 1), carry |-> FALSE]

\* output << value for a double: the default float format, "%g" at precision 6.
DoubleToText(m, e) ==
    LET ds == DigitsOf(IF m < 0 THEN -m ELSE m)
        r == RoundDigits(ds, Precision)
        sig == StripZeros(r.digits)
        X == e + Len(ds) - 1 + (IF r.carry THEN 1 ELSE 0)
        sign == IF m < 0 THEN <<MINUS>> ELSE <<>>
        absX == IF X < 0 THEN -X ELSE X
        expDigits == IF absX < 10 THEN <<0, absX>> ELSE DigitsOf(absX)
        scientific ==
            DigitChars(<<sig[1]>>)
            \o (IF Len(sig) > 1 THEN <<DOT>> \o DigitChars(SubSeq(sig, 2, Len(sig))) ELSE <<>>)
            \o <<Ch_e, IF X < 0 THEN MINUS ELSE PLUS>> \o DigitChars(expDigits)
        fixed ==
            IF X < 0 THEN <<ZERO, DOT>> \o Repeat(ZERO, -X - 1) \o DigitChars(sig)
            ELSE IF Len(sig) <= X + 1
                 THEN DigitChars(sig) \o Repeat(ZERO, X + 1 - Len(sig))
                 ELSE DigitChars(SubSeq(sig, 1, X + 1)) \o <<DOT>>
                      \o DigitChars(SubSeq(sig, X + 2, Len(sig)))
    IN  sign \o (IF X < -4 \/ X >= Precision THEN scientific ELSE fixed)

\* floor(value) == value && abs(value) < 1e10
IsSmallIntegral(m, e) == e >= 0 /\ Len(DigitsOf(IF m < 0 THEN -m ELSE m)) + e <= IntegralDigits

\* PrintString without the case for the backslash.
EscapeChar_NoBackslash(c) ==
    CASE c = NL -> <<BACKSLASH, Ch_n>>
      [] c = CR -> <<BACKSLASH, Ch_r>>
      [] c = TAB -> <<BACKSLASH, Ch_t>>
      [] c = QUOTE -> <<BACKSLASH, QUOTE>>
      [] OTHER -> <<c>>

EscapeChar(c) ==
    CASE c = NL -> <<BACKSLASH, Ch_n>>
      [] c = CR -> <<BACKSLASH, Ch_r>>
      [] c = TAB -> <<BACKSLASH, Ch_t>>
      [] c = QUOTE -> <<BACKSLASH, QUOTE>>
      [] c = BACKSLASH -> <<BACKSLASH, BACKSLASH>>
      [] OTHER -> <<c>>

RECURSIVE EscapeFrom(_, _)
EscapeFrom(value, i) ==
    IF i > Len(value) THEN <<>> ELSE EscapeChar(value[i]) \o EscapeFrom(value, i + 1)

PrintString(value) == <<QUOTE>> \o EscapeFrom(value, 1) \o <<QUOTE>>

\* std::less<std::string>: the order in which a Dict is iterated.
RECURSIVE StringLess(_, _, _)
StringLess(a, b, i) ==
    IF i > Len(b) THEN FALSE
    ELSE IF i > Len(a) THEN TRUE
    ELSE IF a[i] # b[i] THEN a[i] < b[i]
    ELSE StringLess(a, b, i + 1)

RECURSIVE SortedKeys(_)
SortedKeys(keys) ==
    IF keys = {} THEN <<>>
    ELSE LET first == CHOOSE k \in keys : \A j \in keys \ {k} : StringLess(k, j, 1)
         IN  <<first>> \o SortedKeys(keys \ {first})

RECURSIVE PrintNode(_, _)
RECURSIVE PrintElements(_, _, _)
RECURSIVE PrintEntries(_, _, _, _)

\* The for loop of PrintArray, from element i.
PrintElements(array, i, indent) ==
    IF i > Len(array) THEN <<>>
    ELSE (IF i > 1 THEN <<COMMA>> ELSE <<>>)
         \o <<NL>> \o Repeat(SPACE, indent + IndentStep)
         \o PrintNode(array[i], indent + IndentStep)
         \o PrintElements(array, i + 1, indent)

PrintArray(array, indent) ==
    <<LBRACKET>> \o PrintElements(array, 1, indent)
    \o (IF array # <<>> THEN <<NL>> \o Repeat(SPACE, indent) ELSE <<>>)
    \o <<RBRACKET>>

\* The for loop of PrintDict, from the i-th key in order.
PrintEntries(dict, keys, i, indent) ==
    IF i > Len(keys) THEN <<>>
    ELSE (IF i > 1 THEN <<COMMA>> ELSE <<>>)
         \o <<NL>> \o Repeat(SPACE, indent + IndentStep)
         \o PrintString(keys[i]) \o <<COLON, SPACE>>
         \o PrintNode(dict[keys[i]], indent + IndentStep)
         \o PrintEntries(dict, keys, i + 1, indent)

PrintDict(dict, indent) ==
    <<LBRACE>> \o PrintEntries(dict, SortedKeys(DOMAIN dict), 1, indent)
    \o (IF DOMAIN dict # {} THEN <<NL>> \o Repeat(SPACE, indent) ELSE <<>>)
    \o <<RBRACE>>

PrintNode(node, indent) ==
    CASE node.type = "Null" -> NullToken
      [] node.type = "Bool" -> IF node.b THEN TrueToken ELSE FalseToken
      [] node.type = "Int" -> IntToText(node.i)
      [] node.type = "Double" ->
            DoubleToText(node.m, node.e)
            \o (IF IsSmallIntegral(node.m, node.e) THEN <<DOT, ZERO>> ELSE <<>>)
      [] node.type = "String" -> PrintString(node.s)
      [] node.type = "Array" -> PrintArray(node.a, indent)
      [] node.type = "Dict" -> PrintDict(node.d, indent)

PrintDocument(doc) == PrintNode(doc, 0)

----------------------------------------------------------------------------
(* What the caller builds and feeds.  The bounds of the model.             *)

MaxElems == 2      \* elements of a built Array
MaxEntries == 3    \* entries of an object text with repeated keys
MaxLexeme == 4     \* characters of a number lexeme
MaxBody == 4       \* characters after the opening quote of a string text
MaxTrail == 2      \* characters after the root value

SeqsUpTo(A, n) == UNION {[1..k -> A] : k \in 0..n}
SeqsFromTo(A, lo, n) == UNION {[1..k -> A] : k \in lo..n}

\* Values built through the Node constructors.
Ints == {0, -42, INT_MAX, INT_MIN}
Strings == { <<>>, <<NL, QUOTE, CR, TAB>>, <<97, BACKSLASH, QUOTE, SPACE, FF>> }
Keys == { <<97>>, <<98, QUOTE>> }
Leaves ==
    {NullNode, BoolNode(TRUE), BoolNode(FALSE)}
    \cup {IntNode(i) : i \in Ints} \cup {StringNode(s) : s \in Strings}
FewLeaves == {BoolNode(FALSE), IntNode(INT_MIN), StringNode(<<NL, QUOTE, CR, TAB>>)}

ArraysOf(S, n) == {ArrayNode(a) : a \in SeqsUpTo(S, n)}
DictsOf(K, S) == UNION {{DictNode(d) : d \in [D -> S]} : D \in SUBSET K}

Flat == ArraysOf(Leaves, MaxElems) \cup DictsOf(Keys, Leaves)
FewFlat == ArraysOf(FewLeaves, 1) \cup DictsOf({<<>>}, FewLeaves)
Nested == ArraysOf(FewFlat, MaxElems) \cup DictsOf(Keys, FewFlat)
Deep ==
    {ArrayNode(<<DictNode(<<98>> :> x)>>) : x \in {n \in Nested : IsArray(n)}}
    \cup {DictNode(<<97>> :> ArrayNode(<<IntNode(7), x>>)) : x \in {n \in Nested : IsMap(n)}}

\* Trees without a Double.
Trees == Leaves \cup Flat \cup Nested \cup Deep

\* Doubles: integral ones on both sides of 1e6 and of 1e10, and two fractions.
IntegralDoubles ==
    {DoubleNode(Widen(i).m, Widen(i).e) :
        i \in {0, 1, -1, 42, 100, 99999, 999999, 1000000, 1234565, 1234567, -2500000}}
    \cup {DoubleNode(5, 9), DoubleNode(1, 10), DoubleNode(-3, 12)}
Doubles == IntegralDoubles \cup {DoubleNode(15, -1), DoubleNode(-25, -2)}
DoubleTrees ==
    Doubles
    \cup {ArrayNode(<<d>>) : d \in Doubles}
    \cup {ArrayNode(<<IntNode(1), d, NullNode>>) : d \in Doubles}
    \cup {DictNode(<<97>> :> d) : d \in Doubles}

Built == Trees \cup DoubleTrees

\* Object texts with repeated keys: {"k":v,"k":v,...}
DupKeys == { <<97>>, <<98>> }
DupVals == {1, 2, 3}
EntryLists == SeqsFromTo(DupKeys \X DupVals, 1, MaxEntries)

RECURSIVE EntriesText(_, _)
EntriesText(ents, i) ==
    IF i > Len(ents) THEN <<>>
    ELSE (IF i > 1 THEN <<COMMA>> ELSE <<>>)
         \o <<QUOTE>> \o ents[i][1] \o <<QUOTE, COLON>> \o <<ZERO + ents[i][2]>>
         \o EntriesText(ents, i + 1)

DictText(ents) == <<LBRACE>> \o EntriesText(ents, 1) \o <<RBRACE>>

\* Number texts: every lexeme of -, 0, 7 (55), ., e, + that starts a number, and
\* lexemes at the limits of int.
LexemeChars == {MINUS, ZERO, 55, DOT, Ch_e, PLUS}
Lexemes ==
    {l \in SeqsFromTo(LexemeChars, 1, MaxLexeme) : l[1] \in {MINUS, ZERO, 55}}
    \cup { <<50,49,52,55,52,56,51,54,52,55>>,         \* 2147483647
           <<50,49,52,55,52,56,51,54,52,56>>,         \* 2147483648
           <<45,50,49,52,55,52,56,51,54,52,56>>,      \* -2147483648
           <<45,50,49,52,55,52,56,51,54,52,57>>,      \* -2147483649
           <<57,57,57,57,57,57,57,57,57,57,57>>,      \* 99999999999
           <<48,49,45>> }                             \* 01-

\* String texts: the opening quote and then every body of n, u (117), \, ", TAB.
BodyChars == {Ch_n, 117, BACKSLASH, QUOTE, TAB}
Bodies == SeqsUpTo(BodyChars, MaxBody)

\* One character c at each place where the parser skips whitespace.
ProbeChars == 0..127
ProbePlaces == {"value", "element", "separator", "key", "colon", "member"}
ProbeText(place, c) ==
    CASE place = "value" -> <<c, 49>>                                \* c1
      [] place = "element" -> <<LBRACKET, c, 49, RBRACKET>>          \* [c1]
      [] place = "separator" -> <<LBRACKET, 49, c, RBRACKET>>        \* [1c]
      [] place = "key" -> <<LBRACE, c, QUOTE, 97, QUOTE, COLON, 49, RBRACE>>
      [] place = "colon" -> <<LBRACE, QUOTE, 97, QUOTE, c, COLON, 49, RBRACE>>
      [] place = "member" -> <<LBRACE, QUOTE, 97, QUOTE, COLON, c, 49, RBRACE>>
ProbeIndex(place) ==
    CASE place = "value" -> 1
      [] place = "element" -> 2
      [] place = "separator" -> 3
      [] place = "key" -> 2
      [] place = "colon" -> 5
      [] place = "member" -> 6

\* Complete value texts, the Node each one writes and how its last token ends.
Elems ==
    { [text |-> <<49>>, node |-> IntNode(1), tok |-> "number"],
      [text |-> <<45, 50, 48>>, node |-> IntNode(-20), tok |-> "number"],
      [text |-> <<49, 46, 53, 101, 51>>, node |-> DoubleNode(15, 2), tok |-> "number"],
      [text |-> TrueToken, node |-> BoolNode(TRUE), tok |-> "literal"],
      [text |-> NullToken, node |-> NullNode, tok |-> "literal"],
      [text |-> <<34, 97, 92, 34, 98, 34>>, node |-> StringNode(<<97, 34, 98>>),
       tok |-> "closed"],
      [text |-> <<91, 93>>, node |-> ArrayNode(<<>>), tok |-> "closed"],
      [text |-> <<91, 49, 44, 32, 50, 93>>,
       node |-> ArrayNode(<<IntNode(1), IntNode(2)>>), tok |-> "closed"],
      [text |-> <<123, 34, 97, 34, 58, 91, 116, 114, 117, 101, 93, 125>>,
       node |-> DictNode(<<97>> :> ArrayNode(<<BoolNode(TRUE)>>)), tok |-> "closed"] }

\* Whether character c after a token of that kind would belong to the token.
Continues(tok, c) ==
    CASE tok = "number" -> isdigit(c) \/ c \in {DOT, Ch_e, 69}
      [] tok = "literal" -> isalpha(c)
      [] OTHER -> FALSE

ValueStart(c) == c \in {LBRACKET, LBRACE, QUOTE, MINUS} \/ isdigit(c) \/ isalpha(c)
JsonSpace == {SPACE, TAB, NL, CR}

\* Texts with one structural violation: what precedes it, a gap of whitespace,
\* the offending character x (EOF: the text ends there) and what follows, which
\* is nothing or the text that would complete the document had x been skipped.
OffChars ==
    {EOF, 0, VT, FF, QUOTE, PLUS, COMMA, MINUS, DOT, 47, 49, COLON, LBRACKET,
     RBRACKET, 120, LBRACE, RBRACE}
Gaps == { <<>>, <<NL, SPACE>> }
Contexts ==
    { [before |-> <<>>, after |-> <<49>>],
      [before |-> <<LBRACKET, 49, COMMA>>, after |-> <<49, RBRACKET>>],
      [before |-> <<LBRACE, QUOTE, 97, QUOTE, COLON>>, after |-> <<49, RBRACE>>] }
BadTokens ==
    { <<116, 114, 117>>, <<116, 114, 117, 101, 120>>, <<110, 117, 108>>,
      <<84, 114, 117, 101>>, <<120>>, <<102, 97, 108, 115, 121>> }
AfterToken == { <<>>, <<SPACE>>, <<COMMA, 49>>, <<RBRACKET>> }

Violations ==
    UNION {{[rule |-> "element", before |-> <<LBRACKET>> \o e.text, x |-> x,
             after |-> <<RBRACKET>>] :
              x \in {c \in OffChars \ {COMMA, RBRACKET} : ~Continues(e.tok, c)}} :
           e \in Elems}
    \cup UNION {{[rule |-> "entry",
                  before |-> <<LBRACE, QUOTE, 97, QUOTE, COLON>> \o e.text, x |-> x,
                  after |-> <<RBRACE>>] :
                   x \in {c \in OffChars \ {COMMA, RBRACE} : ~Continues(e.tok, c)}} :
                e \in Elems}
    \cup {[rule |-> "value", before |-> ctx.before, x |-> x, after |-> ctx.after] :
            ctx \in Contexts, x \in {c \in OffChars : ~ValueStart(c)}}
    \cup {[rule |-> "key", before |-> <<LBRACE>>, x |-> x,
           after |-> <<QUOTE, 97, QUOTE, COLON, 49, RBRACE>>] :
            x \in OffChars \ {QUOTE, RBRACE}}
    \cup {[rule |-> "key", before |-> <<LBRACE, QUOTE, 97, QUOTE, COLON, 49, COMMA>>,
           x |-> x, after |-> <<QUOTE, 98, QUOTE, COLON, 49, RBRACE>>] :
            x \in OffChars \ {QUOTE}}
    \cup {[rule |-> "colon", before |-> <<LBRACE, QUOTE, 97, QUOTE>>, x |-> x,
           after |-> <<COLON, 49, RBRACE>>] :
            x \in OffChars \ {COLON}}

ViolationText(v, gap, rest) ==
    v.before \o gap \o (IF v.x = EOF THEN <<>> ELSE <<v.x>> \o rest)

Leads == { <<>>, <<NL, TAB, CR, SPACE>> }
TrailChars == {SPACE, RBRACKET, 120, 49, DOT}
Trails == SeqsUpTo(TrailChars, MaxTrail)

----------------------------------------------------------------------------
(* The caller: builds a Document or supplies a stream, then prints, loads  *)
(* and reads.                                                              *)

NoCall == [fn |-> "none"]

Init ==
    /\ phase = "start"
    /\ given = [kind |-> "none"]
    /\ root = NoDoc
    /\ stream = <<>>
    /\ pos = 0
    /\ status = "none"
    /\ message = ""
    /\ output = <<>>
    /\ acc = NoCall

\* Document doc{Node(...)}
Construct(v) ==
    /\ phase = "start"
    /\ root' = v
    /\ given' = [kind |-> "built", node |-> v]
    /\ phase' = "built"
    /\ UNCHANGED <<stream, pos, status, message, output, acc>>

Feed(g, text) ==
    /\ phase = "start"
    /\ given' = g
    /\ stream' = text
    /\ pos' = 0
    /\ phase' = "fed"
    /\ UNCHANGED <<root, status, message, output, acc>>

FeedDict == \E ents \in EntryLists : Feed([kind |-> "dict", ents |-> ents], DictText(ents))

FeedNumber == \E l \in Lexemes : Feed([kind |-> "number", text |-> l], l)

FeedString == \E b \in Bodies : Feed([kind |-> "string", body |-> b], <<QUOTE>> \o b)

FeedProbe ==
    \E place \in ProbePlaces, c \in ProbeChars :
        Feed([kind |-> "probe", place |-> place, c |-> c], ProbeText(place, c))

FeedViolation ==
    \E v \in Violations, gap \in Gaps :
        \E rest \in {<<>>, v.after} :
            Feed([kind |-> "violation", rule |-> v.rule, x |-> v.x, gap |-> gap],
                 ViolationText(v, gap, rest))

FeedBadToken ==
    \E ctx \in Contexts, tk \in BadTokens, rest \in AfterToken :
        Feed([kind |-> "violation", rule |-> "token", x |-> tk[1], gap |-> <<>>],
             ctx.before \o tk \o rest)

FeedTrailing ==
    \E lead \in Leads, e \in Elems, trail \in Trails :
        Feed([kind |-> "trailing", lead |-> lead, elem |-> e, trail |-> trail],
             lead \o e.text \o trail)

\* Print(doc, output)
PrintAction ==
    /\ \/ phase = "built" /\ phase' = "printed"
       \/ phase = "loaded" /\ status = "ok" /\ given.kind = "string" /\ phase' = "reprinted"
    /\ output' = PrintDocument(root)
    /\ UNCHANGED <<given, root, stream, pos, status, message, acc>>

\* The text printed becomes the input stream.
Reopen ==
    /\ phase = "printed"
    /\ stream' = output
    /\ pos' = 0
    /\ root' = NoDoc
    /\ phase' = "fed"
    /\ UNCHANGED <<given, status, message, output, acc>>

\* Document doc = Load(input)
LoadAction ==
    /\ phase = "fed"
    /\ LET r == Load(stream)
       IN  /\ status' = r.st
           /\ pos' = r.pos
           /\ root' = IF r.st = "ok" THEN r.node ELSE NoDoc
           /\ message' = IF r.st = "ok" THEN "" ELSE r.what
    /\ phase' = "loaded"
    /\ UNCHANGED <<given, stream, output, acc>>

Accessors ==
    {"AsArray", "AsMap", "AsBool", "AsInt", "AsDouble", "AsString", "IsDouble",
     "IsPureDouble", "IsInt"}

Call(fn, n) ==
    CASE fn = "AsArray" -> AsArray(n)
      [] fn = "AsMap" -> AsMap(n)
      [] fn = "AsBool" -> AsBool(n)
      [] fn = "AsInt" -> AsInt(n)
      [] fn = "AsDouble" -> AsDouble(n)
      [] fn = "AsString" -> AsString(n)
      [] fn = "IsDouble" -> Returned(IsDouble(n))
      [] fn = "IsPureDouble" -> Returned(IsPureDouble(n))
      [] fn = "IsInt" -> Returned(IsInt(n))

\* doc.GetRoot().As...() and Is...()
Access(fn) ==
    /\ phase = "built"
    /\ root \in Leaves \cup FewFlat \cup Doubles
    /\ acc' = [fn |-> fn, result |-> Call(fn, root)]
    /\ phase' = "accessed"
    /\ UNCHANGED <<given, root, stream, pos, status, message, output>>

Next ==
    \/ \E v \in Built : Construct(v)
    \/ FeedDict
    \/ FeedNumber
    \/ FeedString
    \/ FeedProbe
    \/ FeedViolation
    \/ FeedBadToken
    \/ FeedTrailing
    \/ PrintAction
    \/ Reopen
    \/ LoadAction
    \/ \E fn \in Accessors : Access(fn)

Spec == Init /\ [][Next]_vars

----------------------------------------------------------------------------
(* The claims                                                              *)

RECURSIVE Pow10(_)
Pow10(k) == IF k = 0 THEN 1 ELSE 10 * Pow10(k - 1)

LastIndexOf(ents, k) ==
    CHOOSE i \in 1..Len(ents) :
        ents[i][1] = k /\ \A j \in (i + 1)..Len(ents) : ents[j][1] # k

\* C1: loading an object text with a repeated key gives an Object with one
\* entry per key, and the entry holds the value of the key's last occurrence.
C1_LastOccurrenceWins ==
    (phase = "loaded" /\ given.kind = "dict") =>
        /\ status = "ok"
        /\ IsMap(root)
        /\ DOMAIN root.d = {given.ents[i][1] : i \in 1..Len(given.ents)}
        /\ \A k \in DOMAIN root.d :
              root.d[k] = IntNode(given.ents[LastIndexOf(given.ents, k)][2])

\* C2: Load ends on every input, and it ends by returning a Document or by
\* raising ParsingError: a stream that ends before the root value is complete
\* raises ParsingError.
C2_LoadEndsWithParsingError ==
    phase = "loaded" => status \in {"ok", "ParsingError"}

\* The lexeme LoadNumber collects at the start of text, and whether the numeric
\* conversion of it fails.
NumberLexeme(text) == SubSeq(text, 1, LoadNumber(text, 0).pos)
ConversionFails(lex) ==
    IF \E i \in 1..Len(lex) : lex[i] \in {DOT, Ch_e, 69}
    THEN ExtractDouble(lex).fail
    ELSE ExtractInt(lex).fail

\* C3: Load raises ParsingError, and returns no Value, when the number lexeme
\* cannot be converted (no digits, no digit around the point or the exponent
\* marker, a value outside int), and for the input 01-.
C3_UnconvertibleNumberRaises ==
    (/\ phase = "loaded"
     /\ given.kind = "number"
     /\ \/ ConversionFails(NumberLexeme(given.text))
        \/ given.text = <<48, 49, 45>>)
    => (status = "ParsingError" /\ root = NoDoc)

\* C4: a tree without a Double, printed and loaded again, is the same tree.
C4_RoundTrip ==
    (phase = "loaded" /\ given.kind = "built" /\ given.node \in Trees) =>
        (status = "ok" /\ root = given.node)

C4_Witness ==
    /\ phase = "loaded"
    /\ given.kind = "built"
    /\ given.node \in Deep
    /\ root = given.node
    /\ \E x \in Nested : given.node = DictNode(<<97>> :> ArrayNode(<<IntNode(7), x>>))
                         /\ x # DictNode(EmptyDict)

\* The trees that hold the double d alone, in an Array or in an Object.
Holding(d) ==
    {d, ArrayNode(<<d>>), ArrayNode(<<IntNode(1), d, NullNode>>), DictNode(<<97>> :> d)}

\* C5: an integral Double below 1e10, alone or in an Array or Object, is
\* printed as a text that Load reads in full and that gives the same Double.
C5_IntegralDoubleRoundTrip ==
    \A d \in IntegralDoubles :
        (/\ phase = "loaded"
         /\ given.kind = "built"
         /\ d.e >= 0 /\ Len(DigitsOf(IF d.m < 0 THEN -d.m ELSE d.m)) + d.e <= 10
         /\ given.node \in Holding(d))
        => (/\ status = "ok"
            /\ root = given.node
            /\ pos = Len(stream)
            /\ SubSeq(output, Len(output) - 1, Len(output)) = <<DOT, ZERO>>
               \/ ~IsPureDouble(given.node))

Mismatch(r) == r.threw = "logic_error"

\* C6: AsArray, AsMap, AsBool, AsInt and AsString return the payload of the
\* matching variant and fail for every other; AsDouble returns the double for
\* Double, the widened integer for Integer and fails for the other five;
\* IsDouble holds for Integer and Double, IsPureDouble for Double alone.
C6_AccessorsChecked ==
    phase = "accessed" =>
        LET n == root
            r == acc.result
        IN  /\ acc.fn = "AsArray" =>
                IF n.type = "Array" THEN r = Returned(n.a) ELSE Mismatch(r)
            /\ acc.fn = "AsMap" =>
                IF n.type = "Dict" THEN r = Returned(n.d) ELSE Mismatch(r)
            /\ acc.fn = "AsBool" =>
                IF n.type = "Bool" THEN r = Returned(n.b) ELSE Mismatch(r)
            /\ acc.fn = "AsInt" =>
                IF n.type = "Int" THEN r = Returned(n.i) ELSE Mismatch(r)
            /\ acc.fn = "AsString" =>
                IF n.type = "String" THEN r = Returned(n.s) ELSE Mismatch(r)
            /\ acc.fn = "AsDouble" =>
                CASE n.type = "Int" ->
                        /\ r.threw = "nothing"
                        /\ r.value.e >= 0
                        /\ r.value.m * Pow10(r.value.e) = n.i
                  [] n.type = "Double" -> r = Returned([m |-> n.m, e |-> n.e])
                  [] OTHER -> Mismatch(r)
            /\ acc.fn = "IsDouble" => r = Returned(n.type \in {"Int", "Double"})
            /\ acc.fn = "IsPureDouble" => r = Returned(n.type = "Double")

C6_Witness ==
    /\ phase = "accessed"
    /\ acc.fn = "AsDouble"
    /\ root = IntNode(INT_MAX)
    /\ acc.result.threw = "nothing"

\* C7: every text with a structural violation (an element or entry followed by
\* something else than its separator or closer, a missing value, a key that is
\* no string or has no colon, a character that starts no value, an unknown
\* word) raises ParsingError, and no Document is returned.
C7_StructuralViolationRaises ==
    (phase = "loaded" /\ given.kind = "violation") =>
        (status = "ParsingError" /\ root = NoDoc)

\* C8: a successful Load has consumed the root value and nothing after it:
\* with any text after the value that does not continue its last token, the
\* value is the same and the stream stands right after the value; and the
\* result of every successful Load is the result of loading the consumed text.
C8_StopsAfterRootValue ==
    /\ (/\ phase = "loaded"
        /\ given.kind = "trailing"
        /\ given.trail = <<>> \/ ~Continues(given.elem.tok, given.trail[1]))
       => (/\ status = "ok"
           /\ root = given.elem.node
           /\ pos = Len(given.lead) + Len(given.elem.text))
    /\ (phase = "loaded" /\ status = "ok")
       => (pos <= Len(stream) /\ Load(SubSeq(stream, 1, pos)) = Parsed(root, pos))

C8_Witness ==
    /\ phase = "loaded"
    /\ given.kind = "trailing"
    /\ given.lead # <<>>
    /\ given.elem.node = IntNode(-20)
    /\ given.trail = <<SPACE, 49>>
    /\ status = "ok"
    /\ pos = Len(stream) - 2

\* C9: at every place where whitespace is skipped, a character other than
\* space, tab, newline and carriage return is not skipped: before a value it
\* raises the unexpected-character error unread, and before a key, a colon or
\* a separator a control character is read and rejected.  (Right after [ the
\* character ] closes the empty array and is no value.)
C9_OnlyFourWhitespace ==
    (phase = "loaded" /\ given.kind = "probe" /\ given.c \notin JsonSpace) =>
        /\ (/\ given.place \in {"value", "element", "member"}
            /\ ~ValueStart(given.c)
            /\ ~(given.place = "element" /\ given.c = RBRACKET))
           => (/\ status = "ParsingError"
               /\ message = "Unexpected character: "
               /\ pos = ProbeIndex(given.place) - 1)
        /\ (given.place \in {"separator", "key", "colon"}
            /\ given.c \in (0..31) \cup {127})
           => (status = "ParsingError" /\ pos = ProbeIndex(given.place))

\* Whether the character at i of body b is escaped: it follows a backslash
\* that is not escaped itself.
RECURSIVE Escaped(_, _)
Escaped(b, i) == i > 1 /\ b[i - 1] = BACKSLASH /\ ~Escaped(b, i - 1)

Closers(b) == {i \in 1..Len(b) : b[i] = QUOTE /\ ~Escaped(b, i)}
\* Len(b) + 1 stands for the end of the text after an unescaped backslash.
BadEscapes(b) ==
    {i \in 1..(Len(b) + 1) :
        /\ Escaped(IF i > Len(b) THEN Append(b, EOF) ELSE b, i)
        /\ (i > Len(b) \/ b[i] \notin {Ch_n, Ch_r, Ch_t, QUOTE, BACKSLASH})}
Least(S) == CHOOSE i \in S : \A j \in S : i <= j

RECURSIVE Decoded(_, _, _)
Decoded(b, i, end) ==
    IF i >= end THEN <<>>
    ELSE IF Escaped(b, i)
         THEN <<CASE b[i] = Ch_n -> NL [] b[i] = Ch_r -> CR [] b[i] = Ch_t -> TAB
                  [] OTHER -> b[i]>> \o Decoded(b, i + 1, end)
         ELSE IF b[i] = BACKSLASH THEN Decoded(b, i + 1, end)
         ELSE <<b[i]>> \o Decoded(b, i + 1, end)

\* C10: a string ends at its first quote that is not escaped, a backslash
\* escapes exactly the next character, the five escapes decode and any other
\* escape raises ParsingError; printing the String parsed from a text without
\* a raw newline, carriage return or tab writes that text again.
C10_EscapeFidelity ==
    (phase \in {"loaded", "reprinted"} /\ given.kind = "string") =>
        LET b == given.body
            ends == {i \in Closers(b) : \A j \in BadEscapes(b) : i < j}
            bads == {j \in BadEscapes(b) : \A i \in Closers(b) : j < i}
        IN  /\ ends # {} =>
                /\ status = "ok"
                /\ pos = 1 + Least(ends)
                /\ root = StringNode(Decoded(b, 1, Least(ends)))
            /\ bads # {} =>
                (status = "ParsingError" /\ message = "Invalid escape sequence")
            /\ (/\ phase = "reprinted"
                /\ \A i \in 1..pos : stream[i] \notin {NL, CR, TAB})
               => output = SubSeq(stream, 1, pos)

C10_Witness ==
    /\ phase = "reprinted"
    /\ given.kind = "string"
    /\ given.body = <<117, BACKSLASH, BACKSLASH, QUOTE>>
    /\ root = StringNode(<<117, BACKSLASH>>)
    /\ output = stream

=============================================================================
